---- MODULE Spec2Model ----
(***************************************************************************)
(* Model of report/controls.go: the Controls catalog (a Go map, a          *)
(* reference type, modelled as cells of a heap), the NodeControls          *)
(* timestamped snapshot with its last-writer-wins Merge and its Add, and   *)
(* the hand-written codec of NodeControls (CodecEncodeSelf /               *)
(* CodecDecodeSelf) working on a stream of wire tokens.                    *)
(***************************************************************************)
EXTENDS Integers, Sequences, FiniteSets, TLC

VARIABLES
    \* --- NodeControls.Merge / NodeControls.Add applied to drawn inputs
    a, b,          \* two NodeControls values
    ab, ba,        \* <<a.Merge(b)>> and <<b.Merge(a)>>, <<>> until computed
    clock,         \* the reading mtime.Now() returns in this process
    added,         \* <<the last a.Add(ids...) call: its ids and its result>>
    \* --- two aggregation points folding the same reports
    reports,       \* the snapshots of one node sent by the observers
    pendA, pendB,  \* the reports that have not arrived yet at A / at B
    aggA, aggB,    \* the merged state held at A / at B
    \* --- the codec
    payload,       \* the wire value in flight
    src,           \* <<the NodeControls that was encoded>>, <<>> for a foreign payload
    phase,         \* "idle" | "wire" | "done"
    dst,           \* the NodeControls decoded into
    err,           \* whether Decode returned an error
    pos,           \* how many wire tokens the decoder consumed
    \* --- the Controls catalogs
    heap,          \* the allocated Go maps: reference -> (ID -> Control)
    lastOp         \* the catalog operation that ran last

nodeVars == <<a, b, ab, ba, clock, added>>
foldVars == <<reports, pendA, pendB, aggA, aggB>>
codecVars == <<payload, src, phase, dst, err, pos>>
catalogVars == <<heap, lastOp>>
vars == <<nodeVars, foldVars, codecVars, catalogVars>>

\* ------------------------------------------------------------------ bounds
MaxTime == 3        \* timestamps and clock readings range over 0..MaxTime
MaxIds == 2         \* longest ids argument of Add
MaxReports == 3     \* most reports in one collection
MaxStamp == 11      \* timestamps on the wire range over 0..MaxStamp
MaxFields == 2      \* most entries in a map payload of another producer
MaxRefs == 3        \* most Controls maps allocated
MaxBatch == 2       \* longest argument of AddControls

\* the control identifiers in use
IDs == {"pause", "restart"}

Range(s) == {s[i] : i \in 1..Len(s)}

SeqsUpTo(S, n) == UNION {[1..k -> S] : k \in 0..n}

\* ------------------------------------------------------------ NodeControls
\* time.Time is an instant; its zero value means 'not set'
ZeroTime == 0

Times == ZeroTime..MaxTime

\* StringSet: a set of identifiers
MakeStringSet == {}

StringSetAdd(s, ids) == s \cup Range(ids)

NodeControlsValues == [Timestamp : Times, Controls : SUBSET IDs]

emptyNodeControls == [Timestamp |-> ZeroTime, Controls |-> MakeStringSet]

MakeNodeControls == emptyNodeControls

Before(t, u) == t < u

\* Merge with the tie given to other
MergeTieToOther(nc, other) ==
    IF Before(other.Timestamp, nc.Timestamp) THEN nc ELSE other

\* Merge with the operands of Before swapped
MergeSwappedBefore(nc, other) ==
    IF Before(other.Timestamp, nc.Timestamp) THEN other ELSE nc

\* Merge that also takes the union of the two control sets
MergeUnion(nc, other) ==
    [Timestamp |-> IF Before(nc.Timestamp, other.Timestamp)
                   THEN other.Timestamp ELSE nc.Timestamp,
     Controls |-> nc.Controls \cup other.Controls]

NodeControlsMerge(nc, other) ==
    IF Before(nc.Timestamp, other.Timestamp) THEN other ELSE nc

\* now is the value mtime.Now() returns when Add runs
NodeControlsAdd(nc, now, ids) ==
    [Timestamp |-> now, Controls |-> StringSetAdd(nc.Controls, ids)]

\* ------------------------------------------------- Merge and Add on inputs
InitNode ==
    /\ a \in NodeControlsValues
    /\ b \in NodeControlsValues
    /\ ab = <<>>
    /\ ba = <<>>
    /\ clock = 1
    /\ added = <<>>

MergeAB ==
    /\ ab' = <<NodeControlsMerge(a, b)>>
    /\ UNCHANGED <<a, b, ba, clock, added>>
    /\ UNCHANGED <<foldVars, codecVars, catalogVars>>

MergeBA ==
    /\ ba' = <<NodeControlsMerge(b, a)>>
    /\ UNCHANGED <<a, b, ab, clock, added>>
    /\ UNCHANGED <<foldVars, codecVars, catalogVars>>

\* the process clock advances between calls
Tick ==
    /\ clock < MaxTime
    /\ clock' = clock + 1
    /\ UNCHANGED <<a, b, ab, ba, added>>
    /\ UNCHANGED <<foldVars, codecVars, catalogVars>>

AddA ==
    \E ids \in SeqsUpTo(IDs, MaxIds) :
        /\ added' = <<[ids |-> ids, res |-> NodeControlsAdd(a, clock, ids)]>>
        /\ UNCHANGED <<a, b, ab, ba, clock>>
        /\ UNCHANGED <<foldVars, codecVars, catalogVars>>

NextNode == MergeAB \/ MergeBA \/ Tick \/ AddA

\* -------------------------------------------------------- folding reports
InitFold ==
    /\ reports \in {R \in SUBSET NodeControlsValues :
                        Cardinality(R) \in 1..MaxReports}
    /\ pendA = reports
    /\ pendB = reports
    /\ aggA = MakeNodeControls
    /\ aggB = MakeNodeControls

ArriveA ==
    \E r \in pendA :
        /\ aggA' = NodeControlsMerge(aggA, r)
        /\ pendA' = pendA \ {r}
        /\ UNCHANGED <<reports, pendB, aggB>>
        /\ UNCHANGED <<nodeVars, codecVars, catalogVars>>

ArriveB ==
    \E r \in pendB :
        /\ aggB' = NodeControlsMerge(aggB, r)
        /\ pendB' = pendB \ {r}
        /\ UNCHANGED <<reports, pendA, aggA>>
        /\ UNCHANGED <<nodeVars, codecVars, catalogVars>>

NextFold == ArriveA \/ ArriveB

\* the wire value nil, standing for an absent NodeControls
NilPayload == [nil |-> TRUE, fields |-> <<>>]

\* ------------------------------------------------------------ wire values
\* A string is a sequence of symbols: a field name or a control identifier
\* is one symbol, a rendered time is a sequence of digits.
Sym(x) == <<x>>

Digits == <<"0", "1", "2", "3", "4", "5", "6", "7", "8", "9">>

RECURSIVE renderDigits(_)
renderDigits(n) ==
    IF n < 10 THEN <<Digits[n + 1]>>
    ELSE Append(renderDigits(n \div 10), Digits[(n % 10) + 1])

\* the zero time renders as the empty string, any other as its digits
renderTime(t) == IF t = ZeroTime THEN <<>> ELSE renderDigits(t)

DigitValue(c) == CHOOSE d \in 0..9 : Digits[d + 1] = c

RECURSIVE parseDigits(_)
parseDigits(s) ==
    IF s = <<>> THEN 0
    ELSE 10 * parseDigits(SubSeq(s, 1, Len(s) - 1)) + DigitValue(s[Len(s)])

\* whether the time parser understands s
parseTimeOk(s) == s # <<>> /\ \A i \in 1..Len(s) : s[i] \in Range(Digits)

parseTime(s) == parseDigits(s)

\* a value on the wire: a string, nil, or an array of strings
StrValue(s) == [t |-> "str", s |-> s, elems |-> <<>>]
NilValue == [t |-> "nil", s |-> <<>>, elems |-> <<>>]
ArrValue(elems) == [t |-> "arr", s |-> <<>>, elems |-> elems]

\* the tokens the decoder reads one at a time
StrToken(s) == [t |-> "str", s |-> s, n |-> 0]
NilToken == [t |-> "nil", s |-> <<>>, n |-> 0]
MapToken(n) == [t |-> "map", s |-> <<>>, n |-> n]
ArrToken(n) == [t |-> "arr", s |-> <<>>, n |-> n]

ValueTokens(v) ==
    CASE v.t = "str" -> <<StrToken(v.s)>>
      [] v.t = "nil" -> <<NilToken>>
      [] v.t = "arr" -> <<ArrToken(Len(v.elems))>>
                        \o [i \in 1..Len(v.elems) |-> StrToken(v.elems[i])]

RECURSIVE FieldTokens(_)
FieldTokens(fields) ==
    IF fields = <<>> THEN <<>>
    ELSE <<StrToken(fields[1].k)>> \o ValueTokens(fields[1].v)
         \o FieldTokens(Tail(fields))

\* a payload is nil or a map of definite length, as MsgPack writes it; the
\* length < 0 branch of the loop, for formats that end a map with a break,
\* is not modelled
Tokens(p) ==
    IF p.nil THEN <<NilToken>>
    ELSE <<MapToken(Len(p.fields))>> \o FieldTokens(p.fields)

\* ----------------------------------------------------------------- encode
\* a StringSet is written as the array of its elements
RECURSIVE StringSetElems(_)
StringSetElems(S) ==
    IF S = {} THEN <<>>
    ELSE LET x == CHOOSE y \in S : TRUE
         IN <<Sym(x)>> \o StringSetElems(S \ {x})

\* wireNodeControls with both fields written whatever they hold
wireNodeControlsNoOmit(ts, controls) ==
    <<[k |-> Sym("timestamp"), v |-> StrValue(ts)],
      [k |-> Sym("controls"), v |-> ArrValue(StringSetElems(controls))]>>

\* the fields of a wireNodeControls that are written: both are omitempty
wireNodeControls(ts, controls) ==
    (IF ts = <<>> THEN <<>>
     ELSE <<[k |-> Sym("timestamp"), v |-> StrValue(ts)]>>)
    \o (IF controls = {} THEN <<>>
        ELSE <<[k |-> Sym("controls"),
                v |-> ArrValue(StringSetElems(controls))]>>)

CodecEncodeSelf(nc) ==
    [nil |-> FALSE,
     fields |-> wireNodeControls(renderTime(nc.Timestamp), nc.Controls)]

\* ----------------------------------------------------------------- decode
\* the outcome of a decoding step: the destination, the index of the next
\* token, and whether the decoder gave up
Outcome(nc, p, e) == [nc |-> nc, pos |-> p, err |-> e]

HasToken(toks, p, t) == p <= Len(toks) /\ toks[p].t = t

\* StringSet.CodecDecodeSelf: an array header and that many strings
StringSetDecode(nc, toks, p) ==
    IF ~HasToken(toks, p, "arr") THEN Outcome(nc, p, TRUE)
    ELSE LET n == toks[p].n
         IN IF \E i \in 1..n : ~HasToken(toks, p + i, "str")
            THEN Outcome(nc, p, TRUE)
            ELSE Outcome([nc EXCEPT !.Controls =
                                {toks[p + i].s[1] : i \in 1..n}],
                         p + n + 1, FALSE)

\* case "timestamp": DecodeString, then parseTime; parseTime returns one
\* value, so a string it does not understand can only stop the decoder by
\* a panic, which Decode hands to its caller as an error
DecodeTimestamp(nc, toks, p) ==
    IF ~HasToken(toks, p, "str") THEN Outcome(nc, p, TRUE)
    ELSE IF ~parseTimeOk(toks[p].s) THEN Outcome(nc, p + 1, TRUE)
    ELSE Outcome([nc EXCEPT !.Timestamp = parseTime(toks[p].s)], p + 1, FALSE)

\* case "controls" without the TryDecodeAsNil test
DecodeControlsNoNilTest(nc, toks, p) == StringSetDecode(nc, toks, p)

\* case "controls": a nil value is consumed and leaves Controls alone
DecodeControls(nc, toks, p) ==
    IF HasToken(toks, p, "nil") THEN Outcome(nc, p + 1, FALSE)
    ELSE StringSetDecode(nc, toks, p)

\* the switch without its case "controls"
DecodeFieldNoControls(nc, toks, p, k) ==
    CASE k = Sym("timestamp") -> DecodeTimestamp(nc, toks, p)
      [] OTHER -> Outcome(nc, p, FALSE)

\* the switch on the key; it has no default case, so after any other key
\* nothing is read and the value stays in the stream
DecodeField(nc, toks, p, k) ==
    CASE k = Sym("timestamp") -> DecodeTimestamp(nc, toks, p)
      [] k = Sym("controls") -> DecodeControls(nc, toks, p)
      [] OTHER -> Outcome(nc, p, FALSE)

\* the loop over the length entries of the map, from entry i on; the key is
\* read with DecodeBytes, and &slc[0] panics on an empty key
RECURSIVE DecodeEntries(_, _, _, _, _)
DecodeEntries(nc, toks, p, i, length) ==
    IF i >= length THEN Outcome(nc, p, FALSE)
    ELSE IF ~HasToken(toks, p, "str") \/ toks[p].s = <<>>
    THEN Outcome(nc, p, TRUE)
    ELSE LET r == DecodeField(nc, toks, p + 1, toks[p].s)
         IN IF r.err THEN r
            ELSE DecodeEntries(r.nc, toks, r.pos, i + 1, length)

\* CodecDecodeSelf into nc from the start of toks; pos counts the tokens read
CodecDecodeSelf(nc, toks) ==
    IF HasToken(toks, 1, "nil") THEN Outcome(nc, 1, FALSE)
    ELSE IF ~HasToken(toks, 1, "map") THEN Outcome(nc, 0, TRUE)
    ELSE LET r == DecodeEntries(nc, toks, 2, 0, toks[1].n)
         IN Outcome(r.nc, r.pos - 1, r.err)

\* ------------------------------------------------------ codec operations
\* what another producer may send
TimeStrings == {renderTime(t) : t \in 1..MaxStamp} \cup {Sym("x"), <<"1", "x">>}

ControlArrays == {StringSetElems(S) : S \in SUBSET IDs}

Entries ==
    {[k |-> Sym("timestamp"), v |-> StrValue(s)] : s \in TimeStrings}
    \cup {[k |-> Sym("controls"), v |-> ArrValue(e)] : e \in ControlArrays}
    \cup {[k |-> Sym("controls"), v |-> NilValue]}
    \cup {[k |-> Sym("extra"), v |-> v] :
             v \in {StrValue(Sym("bar")), NilValue, ArrValue(<<Sym("pause")>>)}}

WireNodeControlsValues == [Timestamp : 0..MaxStamp, Controls : SUBSET IDs]

InitCodec ==
    /\ payload = NilPayload
    /\ src = <<>>
    /\ phase = "idle"
    /\ dst = MakeNodeControls
    /\ err = FALSE
    /\ pos = 0

\* this process encodes one of its NodeControls
Encode ==
    /\ phase = "idle"
    /\ \E nc \in WireNodeControlsValues :
        /\ payload' = CodecEncodeSelf(nc)
        /\ src' = <<nc>>
    /\ phase' = "wire"
    /\ UNCHANGED <<dst, err, pos>>
    /\ UNCHANGED <<nodeVars, foldVars, catalogVars>>

\* a payload of another producer arrives
Receive ==
    /\ phase = "idle"
    /\ \/ payload' = NilPayload
       \/ \E fields \in SeqsUpTo(Entries, MaxFields) :
              payload' = [nil |-> FALSE, fields |-> fields]
    /\ src' = <<>>
    /\ phase' = "wire"
    /\ UNCHANGED <<dst, err, pos>>
    /\ UNCHANGED <<nodeVars, foldVars, catalogVars>>

\* the payload is decoded into a fresh NodeControls
Decode ==
    /\ phase = "wire"
    /\ LET r == CodecDecodeSelf(MakeNodeControls, Tokens(payload))
       IN /\ dst' = r.nc
          /\ err' = r.err
          /\ pos' = r.pos
    /\ phase' = "done"
    /\ UNCHANGED <<payload, src>>
    /\ UNCHANGED <<nodeVars, foldVars, catalogVars>>

Reset ==
    /\ phase = "done"
    /\ payload' = NilPayload
    /\ src' = <<>>
    /\ phase' = "idle"
    /\ dst' = MakeNodeControls
    /\ err' = FALSE
    /\ pos' = 0
    /\ UNCHANGED <<nodeVars, foldVars, catalogVars>>

NextCodec == Encode \/ Receive \/ Decode \/ Reset

\* ------------------------------------------------ claims on NodeControls
\* C1: a.Merge(b) is b, whole, when a.Timestamp is strictly earlier than
\* b.Timestamp, and is a, whole, in every other case (a tie, or a later).
C1_MergeLastWriterWins ==
    /\ ab # <<>> =>
        /\ a.Timestamp < b.Timestamp => ab[1] = b
        /\ a.Timestamp >= b.Timestamp => ab[1] = a
    /\ ba # <<>> =>
        /\ b.Timestamp < a.Timestamp => ba[1] = a
        /\ b.Timestamp >= a.Timestamp => ba[1] = b

\* a strictly older a, holding a control b lacks, has been merged with b
C1_Witness ==
    /\ ab = <<b>>
    /\ a.Timestamp < b.Timestamp
    /\ a.Timestamp > ZeroTime
    /\ a.Controls \ b.Controls # {}

Latest(R) == {r \in R : \A q \in R : q.Timestamp <= r.Timestamp}

AllArrived == pendA = {} /\ pendB = {}

\* C2 as stated: once every report has arrived, in whatever order, the two
\* aggregation points hold the same state, and its Controls is the control
\* set of the report with the most recent Timestamp.
C2_OrderIndependent ==
    AllArrived =>
        /\ aggA = aggB
        /\ \A r \in Latest(reports) : aggA.Controls = r.Controls

\* C2 amended: the same, for collections in which one report alone carries
\* the most recent Timestamp and that Timestamp is later than the zero
\* Timestamp MakeNodeControls() starts from.
C2_OrderIndependentUniqueLatest ==
    (/\ AllArrived
     /\ Cardinality(Latest(reports)) = 1
     /\ \A r \in Latest(reports) : r.Timestamp > ZeroTime) =>
        /\ aggA = aggB
        /\ \A r \in Latest(reports) : aggA = r

\* three reports have arrived at both points, one alone is the latest, and
\* an older one carries a control the latest lacks
C2_Witness ==
    /\ AllArrived
    /\ Cardinality(reports) = 3
    /\ Cardinality(Latest(reports)) = 1
    /\ \E r \in Latest(reports) : \E q \in reports :
           /\ r.Timestamp > ZeroTime
           /\ q.Timestamp > ZeroTime
           /\ q.Controls \ r.Controls # {}

\* C3 as stated: when the timestamps differ, a.Merge(b) differs from
\* b.Merge(a).
C3_AsymmetricWhenTimestampsDiffer ==
    (ab # <<>> /\ ba # <<>> /\ a.Timestamp # b.Timestamp) => ab[1] # ba[1]

\* C3 amended: a.Merge(b) differs from b.Merge(a) exactly when the
\* timestamps are equal and the control sets differ; when the timestamps
\* differ both orders return the later snapshot.
C3_AsymmetricOnlyOnTies ==
    (ab # <<>> /\ ba # <<>>) =>
        /\ ab[1] # ba[1] <=>
               (a.Timestamp = b.Timestamp /\ a.Controls # b.Controls)
        /\ a.Timestamp < b.Timestamp => (ab[1] = b /\ ba[1] = b)
        /\ b.Timestamp < a.Timestamp => (ab[1] = a /\ ba[1] = a)

\* both orders have been computed for a tie between different snapshots
C3_Witness ==
    /\ ab # <<>>
    /\ ba # <<>>
    /\ a.Timestamp = b.Timestamp
    /\ a.Controls # b.Controls
    /\ ab[1] # ba[1]

\* C4: a.Add(ids) holds every control of a and every element of ids and
\* nothing else, its Timestamp is the clock reading, and that Timestamp is
\* not earlier than a.Timestamp.
C4_AddMonotonic ==
    added # <<>> =>
        /\ added[1].res.Controls = a.Controls \cup Range(added[1].ids)
        /\ added[1].res.Timestamp = clock
        /\ added[1].res.Timestamp >= a.Timestamp

\* ---------------------------------------------------- claims on the codec
Keys(p) == {p.fields[i].k : i \in 1..Len(p.fields)}

Encoded == phase # "idle" /\ src # <<>>

C6_RoundTrip ==
    (phase = "done" /\ src # <<>> /\ src[1].Timestamp # ZeroTime) =>
        /\ ~err
        /\ dst = src[1]
        /\ pos = Len(Tokens(payload))

\* a NodeControls with a two-digit timestamp and two controls has made the
\* round trip
C6_Witness ==
    /\ phase = "done"
    /\ src # <<>>
    /\ src[1].Timestamp >= 10
    /\ src[1].Controls = IDs
    /\ dst = src[1]

Received == phase = "done" /\ src = <<>>

KnownKeys == {Sym("timestamp"), Sym("controls")}

\* the payload without its entries under unrecognized keys
Known(p) == [p EXCEPT !.fields = SelectSeq(p.fields, LAMBDA f : f.k \in KnownKeys)]

\* C7: a map payload with an unrecognized key decodes without error, the
\* key is skipped together with its value, and the result is that of the
\* payload without the unrecognized entries.
C7_UnknownKeyIgnored ==
    (/\ Received
     /\ ~payload.nil
     /\ Keys(payload) \ KnownKeys # {}
     /\ ~CodecDecodeSelf(MakeNodeControls, Tokens(Known(payload))).err) =>
        /\ ~err
        /\ dst = CodecDecodeSelf(MakeNodeControls, Tokens(Known(payload))).nc

FieldsOf(p, k) == SelectSeq(p.fields, LAMBDA f : f.k = k)

TimestampsParse(p) ==
    \A i \in 1..Len(p.fields) :
        p.fields[i].k = Sym("timestamp") => parseTimeOk(p.fields[i].v.s)

\* C8: for a payload made of timestamp and controls entries: without a
\* timestamp entry the decoded Timestamp is the zero time; without a
\* controls entry, or with nil for controls, the decoded control set is
\* empty; with one controls entry and nothing else the result is that
\* control set with the zero time; the empty map and the nil payload decode
\* to MakeNodeControls(); none of these is an error.
C8_AbsentFieldsTolerated ==
    (Received /\ Keys(payload) \subseteq KnownKeys) =>
        /\ FieldsOf(payload, Sym("timestamp")) = <<>> =>
               ~err /\ dst.Timestamp = ZeroTime
        /\ (/\ TimestampsParse(payload)
            /\ \A i \in 1..Len(payload.fields) :
                   payload.fields[i].k = Sym("controls") =>
                       payload.fields[i].v = NilValue) =>
               ~err /\ dst.Controls = {}
        /\ (/\ Len(payload.fields) = 1
            /\ payload.fields[1].k = Sym("controls")
            /\ payload.fields[1].v.t = "arr") =>
               /\ ~err
               /\ dst.Timestamp = ZeroTime
               /\ dst.Controls = {e[1] : e \in Range(payload.fields[1].v.elems)}
        /\ (payload.nil \/ payload.fields = <<>>) =>
               ~err /\ dst = MakeNodeControls
        /\ ~err => pos = Len(Tokens(payload))

\* a payload with a timestamp and nil for controls has been decoded
C8_Witness ==
    /\ Received
    /\ ~payload.nil
    /\ Len(payload.fields) = 2
    /\ payload.fields[1].k = Sym("timestamp")
    /\ payload.fields[2] = [k |-> Sym("controls"), v |-> NilValue]
    /\ ~err
    /\ dst.Timestamp # ZeroTime
    /\ dst.Controls = {}

\* C9: when a timestamp entry of the payload holds a string the time parser
\* does not understand, Decode returns an error.
C9_MalformedTimestampIsError ==
    (/\ Received
     /\ \E i \in 1..Len(payload.fields) :
            /\ payload.fields[i].k = Sym("timestamp")
            /\ payload.fields[i].v.t = "str"
            /\ ~parseTimeOk(payload.fields[i].v.s)) =>
        err

\* ---------------------------------------------------------------- Controls
\* the Control values in use: two descriptions of c1, one of c2
Control(id, human) == [ID |-> id, Human |-> human, Icon |-> "fa-stop", Rank |-> 0]

ControlValues == {Control("c1", "stop"), Control("c1", "halt"), Control("c2", "pause")}

\* Controls{}: a map with no entry
EmptyControls == [k \in {} |-> Control("c1", "stop")]

\* m[k] = v on a Go map
MapSet(m, k, v) == [x \in DOMAIN m \cup {k} |-> IF x = k THEN v ELSE m[x]]

\* for k, v := range from { result[k] = v }, over the keys not yet visited
RECURSIVE RangeInto(_, _, _)
RangeInto(result, from, keys) ==
    IF keys = {} THEN result
    ELSE LET k == CHOOSE x \in keys : TRUE
         IN RangeInto(MapSet(result, k, from[k]), from, keys \ {k})

\* an allocation: the heap with one more map, and the reference to it
Alloc(h, m) == [heap |-> Append(h, m), res |-> Len(h) + 1]

\* cs.Copy(): a new map with the entries of cs
ControlsCopy(h, cs) == Alloc(h, RangeInto(EmptyControls, h[cs], DOMAIN h[cs]))

\* Merge writing into cs itself instead of into a copy of it
ControlsMergeNoCopy(h, cs, other) ==
    [heap |-> [h EXCEPT ![cs] = RangeInto(h[cs], h[other], DOMAIN h[other])],
     res |-> cs]

\* cs.Merge(other): a copy of cs, then every entry of other written into it
ControlsMerge(h, cs, other) ==
    LET c == ControlsCopy(h, cs)
    IN [heap |-> [c.heap EXCEPT ![c.res] =
                      RangeInto(c.heap[c.res], h[other], DOMAIN h[other])],
        res |-> c.res]

\* cs.AddControl(c): written into the map cs refers to
AddControl(h, cs, c) == [h EXCEPT ![cs] = MapSet(h[cs], c.ID, c)]

\* cs.AddControls(controls): each written in turn
RECURSIVE AddControls(_, _, _)
AddControls(h, cs, controls) ==
    IF controls = <<>> THEN h
    ELSE AddControls([h EXCEPT ![cs] = MapSet(h[cs], controls[1].ID, controls[1])],
                     cs, Tail(controls))

Op(op, cs, other, res) == [op |-> op, cs |-> cs, other |-> other, res |-> res]

NoOp == Op("none", 0, 0, 0)

InitCatalog ==
    /\ heap = <<>>
    /\ lastOp = NoOp

\* a catalog is created empty
NewControls ==
    /\ Len(heap) < MaxRefs
    /\ heap' = Alloc(heap, EmptyControls).heap
    /\ lastOp' = Op("New", 0, 0, Len(heap) + 1)
    /\ UNCHANGED <<nodeVars, foldVars, codecVars>>

CopyOp ==
    /\ Len(heap) < MaxRefs
    /\ \E cs \in DOMAIN heap :
        LET r == ControlsCopy(heap, cs)
        IN /\ heap' = r.heap
           /\ lastOp' = Op("Copy", cs, 0, r.res)
    /\ UNCHANGED <<nodeVars, foldVars, codecVars>>

MergeOp ==
    /\ Len(heap) < MaxRefs
    /\ \E cs \in DOMAIN heap, other \in DOMAIN heap :
        LET r == ControlsMerge(heap, cs, other)
        IN /\ heap' = r.heap
           /\ lastOp' = Op("Merge", cs, other, r.res)
    /\ UNCHANGED <<nodeVars, foldVars, codecVars>>

AddControlOp ==
    /\ \E cs \in DOMAIN heap, c \in ControlValues :
        /\ heap' = AddControl(heap, cs, c)
        /\ lastOp' = Op("AddControl", cs, 0, 0)
    /\ UNCHANGED <<nodeVars, foldVars, codecVars>>

AddControlsOp ==
    /\ \E cs \in DOMAIN heap, controls \in SeqsUpTo(ControlValues, MaxBatch) :
        /\ heap' = AddControls(heap, cs, controls)
        /\ lastOp' = Op("AddControls", cs, 0, 0)
    /\ UNCHANGED <<nodeVars, foldVars, codecVars>>

NextCatalog == NewControls \/ CopyOp \/ MergeOp \/ AddControlOp \/ AddControlsOp

\* -------------------------------------------------- claims on the catalogs
\* C10: every step leaves alone the storage of the catalogs it is not
\* called on. A Merge step allocates a map that holds exactly the keys of
\* cs and of other, with other's Control under each key of other and cs's
\* Control under every other key, and changes no map that existed; a Copy
\* step likewise allocates an equal map; an AddControl or AddControls step
\* on cs changes no map but the one cs refers to, whether cs came from
\* Merge, from Copy or from neither.
C10_MergePure ==
    [][/\ lastOp'.op \in {"Merge", "Copy"} =>
           /\ DOMAIN heap' = DOMAIN heap \cup {lastOp'.res}
           /\ lastOp'.res \notin DOMAIN heap
           /\ \A r \in DOMAIN heap : heap'[r] = heap[r]
       /\ lastOp'.op = "Merge" =>
           LET A == heap[lastOp'.cs]
               B == heap[lastOp'.other]
               R == heap'[lastOp'.res]
           IN /\ DOMAIN R = DOMAIN A \cup DOMAIN B
              /\ \A k \in DOMAIN B : R[k] = B[k]
              /\ \A k \in DOMAIN A \ DOMAIN B : R[k] = A[k]
       /\ lastOp'.op = "Copy" =>
           /\ DOMAIN heap'[lastOp'.res] = DOMAIN heap[lastOp'.cs]
           /\ \A k \in DOMAIN heap[lastOp'.cs] :
                  heap'[lastOp'.res][k] = heap[lastOp'.cs][k]
       /\ lastOp'.op \in {"AddControl", "AddControls"} =>
           /\ DOMAIN heap' = DOMAIN heap
           /\ \A r \in DOMAIN heap \ {lastOp'.cs} : heap'[r] = heap[r]
      ]_vars

\* two different catalogs that describe c1 differently have been merged,
\* and one of them holds a key the other lacks
C10_Witness ==
    /\ lastOp.op = "Merge"
    /\ lastOp.cs # lastOp.other
    /\ "c1" \in DOMAIN heap[lastOp.cs] \cap DOMAIN heap[lastOp.other]
    /\ heap[lastOp.cs]["c1"] # heap[lastOp.other]["c1"]
    /\ "c2" \in DOMAIN heap[lastOp.cs] \ DOMAIN heap[lastOp.other]
    /\ heap[lastOp.res]["c1"] = heap[lastOp.other]["c1"]

\* ------------------------------------------------------------- idle parts
IdleNode ==
    /\ a = MakeNodeControls
    /\ b = MakeNodeControls
    /\ ab = <<>>
    /\ ba = <<>>
    /\ clock = 1
    /\ added = <<>>

IdleFold ==
    /\ reports = {}
    /\ pendA = {}
    /\ pendB = {}
    /\ aggA = MakeNodeControls
    /\ aggB = MakeNodeControls

IdleCodec ==
    /\ payload = NilPayload
    /\ src = <<>>
    /\ phase = "idle"
    /\ dst = MakeNodeControls
    /\ err = FALSE
    /\ pos = 0

IdleCatalog ==
    /\ heap = <<>>
    /\ lastOp = NoOp

\* --------------------------------------------------------- specifications
\* NodeControls.Merge and NodeControls.Add on drawn inputs
InitNodeSpec == InitNode /\ IdleFold /\ IdleCodec /\ IdleCatalog

SpecNode == InitNodeSpec /\ [][NextNode]_vars

\* two aggregation points folding one collection of reports
InitFoldSpec == InitFold /\ IdleNode /\ IdleCodec /\ IdleCatalog

SpecFold == InitFoldSpec /\ [][NextFold]_vars

\* encoding, and decoding what was encoded or what another producer sent
InitCodecSpec == InitCodec /\ IdleNode /\ IdleFold /\ IdleCatalog

SpecCodec == InitCodecSpec /\ [][NextCodec]_vars

\* the Controls catalogs of one process
InitCatalogSpec == InitCatalog /\ IdleNode /\ IdleFold /\ IdleCodec

SpecCatalog == InitCatalogSpec /\ [][NextCatalog]_vars

====
